---- MODULE Spec2Model ----
(***************************************************************************)
(* Model of .github/scripts/auto-backport.py: the backport cascade over    *)
(* the hosting platform's pull requests and the fork's branches.           *)
(*                                                                         *)
(* Text is modelled structurally.  A character is a one-character string;  *)
(* a component is a sequence of characters; a version ("2025.3") is the    *)
(* sequence of the components that split('.') yields.  A label is          *)
(* [name, parts]: name is "backport/" for a label that starts with that    *)
(* text (parts is then the rest, split at the dots) and the whole label    *)
(* text otherwise (parts is then empty).                                   *)
(***************************************************************************)
EXTENDS Integers, Sequences, FiniteSets, TLC

VARIABLES
  prs,       \* hosting platform: the pull requests, indexed by number
  recent,    \* hosting platform: PR numbers, most recently updated first
  target,    \* upstream repository: content of branch next-<version>
  fork,      \* bot fork: content of each pushed backport branch
  lastRun,   \* what the last invocation of main() was given and did
  stable,    \* upstream repository: the promoted commits of the stable branch
  resumed,   \* history: backport PRs a finished invocation has resumed from
  faults,    \* history: invocations so far in which an API or git call failed
  probe      \* input and result of a function applied on its own

vars == <<prs, recent, target, fork, stable, lastRun, resumed, faults, probe>>

\* The value of Body at e, with e evaluated once: the results of the calls
\* below are taken this way, as a program takes the value a call returns.
Bind(e, Body(_)) == CHOOSE v \in {Body(x) : x \in {e}} : TRUE

\* ---------------------------------------------------------------- text

DigitChars == <<"0", "1", "2", "3", "4", "5", "6", "7", "8", "9">>

IsDigit(c) == \E i \in 1..Len(DigitChars) : DigitChars[i] = c

DigitValue(c) == (CHOOSE i \in 1..Len(DigitChars) : DigitChars[i] = c) - 1

\* float(text) raises ValueError unless text is a number; over the modelled
\* alphabet (digits and letters) the numbers are the non-empty digit strings.
Numeric(comp) == Len(comp) > 0 /\ \A i \in 1..Len(comp) : IsDigit(comp[i])

RECURSIVE FloatValue(_)
FloatValue(comp) ==
  IF comp = <<>> THEN 0
  ELSE 10 * FloatValue(SubSeq(comp, 1, Len(comp) - 1)) + DigitValue(comp[Len(comp)])

BackportLabel(version) == [name |-> "backport/", parts |-> version]

PlainLabel(text) == [name |-> text, parts |-> <<>>]

\* label.replace('backport/', '').split('.')
LabelVersion(label) ==
  IF label.name = "backport/" THEN label.parts ELSE << <<label.name>> >>

\* re.compile(r'backport/\d+\.\d+$').match(label)
backport_label_pattern(label) ==
  /\ label.name = "backport/"
  /\ Len(label.parts) = 2
  /\ Numeric(label.parts[1])
  /\ Numeric(label.parts[2])

\* ------------------------------------------------------- sort_versions

version_key(label) ==
  LET parts == LabelVersion(label) IN
  IF Len(parts) = 1
    THEN IF Numeric(parts[1]) THEN <<FloatValue(parts[1]), 0>> ELSE <<0, 0>>
    ELSE IF Numeric(parts[1]) /\ Numeric(parts[2])
           THEN <<FloatValue(parts[1]), FloatValue(parts[2])>>
           ELSE <<0, 0>>

\* Python's tuple order
KeyLess(a, b) == a[1] < b[1] \/ (a[1] = b[1] /\ a[2] < b[2])

\* sorted() without reverse=True: oldest first
InsertAscending(sorted, x) == <<x>> \o sorted

\* The place of x in a list already sorted newest first: behind every element
\* whose key is not lower (sorted() is stable, also with reverse=True).
RECURSIVE InsertDescending(_, _)
InsertDescending(sorted, x) ==
  IF sorted = <<>> THEN <<x>>
  ELSE IF KeyLess(version_key(Head(sorted)), version_key(x))
         THEN <<x>> \o sorted
         ELSE <<Head(sorted)>> \o InsertDescending(Tail(sorted), x)

RECURSIVE sort_versions(_)
sort_versions(backport_labels) ==
  IF backport_labels = <<>> THEN <<>>
  ELSE Bind(sort_versions(SubSeq(backport_labels, 1, Len(backport_labels) - 1)),
            LAMBDA sorted :
              InsertDescending(sorted, backport_labels[Len(backport_labels)]))

\* ------------------------------------------------- hosting platform

NoVersion == <<>>

NoBranch == [pr |-> 0, version |-> NoVersion]

BotUser == "yaronkaikov"

\* The text matched by [\d\.]+ : digits and dots only, at least one character.
DigitsDots(version) ==
  /\ version # NoVersion
  /\ \A i \in 1..Len(version) : \A j \in 1..Len(version[i]) : IsDigit(version[i][j])
  /\ ~(Len(version) = 1 /\ version[1] = <<>>)

\* pr.title.startswith('[Backport')
TitleStartsWithBackport(pr) == pr.title # <<>>

\* re.search(r'\[Backport ([\d\.]+)\]', pr.title): the first prefix that matches
TitleVersionMatches(pr) == {i \in 1..Len(pr.title) : DigitsDots(pr.title[i])}

processed_version(pr) ==
  pr.title[CHOOSE i \in TitleVersionMatches(pr) :
             \A j \in TitleVersionMatches(pr) : i <= j]

\* re.sub(r'^\[Backport [\d\.]+\]\s*', '', pr.title)
clean_title(pr) ==
  IF pr.title # <<>> /\ DigitsDots(Head(pr.title)) THEN Tail(pr.title) ELSE pr.title

\* f'backport/{pr.number}/to-{version}'
new_branch_name(number, version) == [pr |-> number, version |-> version]

\* The pull requests repo.get_pulls(state='closed', sort='updated',
\* direction='desc') lists, in that order.
ClosedByUpdate(ps, order) == SelectSeq(order, LAMBDA n : ps[n].state = "closed")

Touch(order, n) == <<n>> \o SelectSeq(order, LAMBDA m : m # n)

BackportLabelsOf(pr) == {l \in pr.labels : backport_label_pattern(l)}

\* The labels of a PR in the order the platform lists them.
RECURSIVE SetToSeq(_)
SetToSeq(S) ==
  IF S = {} THEN <<>>
  ELSE LET x == CHOOSE y \in S : TRUE IN <<x>> \o SetToSeq(S \ {x})

SeqToSet(s) == {s[i] : i \in 1..Len(s)}

\* ------------------------------------------- find_merged_prs_with_labels

ScanLimit == 20

\* A loop that counts every closed pull request it is handed
RECURSIVE ScanClosed(_, _, _)
ScanClosed(pulls, i, count) ==
  IF i > Len(pulls) \/ count >= ScanLimit
    THEN [found |-> <<>>, inspected |-> i - 1]
  ELSE LET pr == pulls[i] IN
       IF pr.state = "closed" /\ pr.merged
            /\ BackportLabelsOf(pr) # {} /\ TitleStartsWithBackport(pr)
         THEN [found |-> <<pr.number>>, inspected |-> i]
         ELSE ScanClosed(pulls, i + 1, count + 1)

\* The loop over the closed pull requests, newest update first: i is the next
\* entry, count the merged ones seen.  The result is the returned list (of PR
\* numbers; the labels returned with each are BackportLabelsOf it) and the
\* number of entries the loop looked at.
RECURSIVE ScanFrom(_, _, _)
ScanFrom(pulls, i, count) ==
  IF i > Len(pulls) \/ count >= ScanLimit
    THEN [found |-> <<>>, inspected |-> i - 1]
  ELSE LET pr == pulls[i] IN
       IF pr.state = "closed" /\ pr.merged
         THEN IF BackportLabelsOf(pr) # {} /\ TitleStartsWithBackport(pr)
                THEN [found |-> <<pr.number>>, inspected |-> i]
                ELSE ScanFrom(pulls, i + 1, count + 1)
         ELSE ScanFrom(pulls, i + 1, count)

find_merged_prs_with_labels(pulls) == ScanFrom(pulls, 1, 0)

\* ------------------------------------------------------ get_pr_commits

\* message.startswith(commit_title), both taken as sequences of words
StartsWith(message, title) ==
  Len(title) <= Len(message) /\ SubSeq(message, 1, Len(title)) = title

merge_commit_sha(pr) == [pr |-> pr.number, k |-> 0]

RECURSIVE MatchPromoted(_, _, _)
MatchPromoted(title, promoted, j) ==
  IF j > Len(promoted) THEN <<>>
  ELSE (IF StartsWith(promoted[j].message, title) THEN <<promoted[j].sha>> ELSE <<>>)
       \o MatchPromoted(title, promoted, j + 1)

\* The loops the other way round: the promoted commits outside, the
\* commits of the pull request inside
RECURSIVE MatchByPromoted(_, _, _)
MatchByPromoted(titles, promoted, j) ==
  IF j > Len(promoted) THEN <<>>
  ELSE (IF \E i \in 1..Len(titles) : StartsWith(promoted[j].message, titles[i])
          THEN <<promoted[j].sha>> ELSE <<>>)
       \o MatchByPromoted(titles, promoted, j + 1)

RECURSIVE MatchCommits(_, _, _)
MatchCommits(titles, promoted, i) ==
  IF i > Len(titles) THEN <<>>
  ELSE MatchPromoted(titles[i], promoted, 1) \o MatchCommits(titles, promoted, i + 1)

\* repo.compare(start_commit, stable_branch).commits: what follows start_commit
\* (start_commit = 0: the whole branch, repo.get_commits(sha=stable_branch))
PromotedSince(branch, start_commit) ==
  SubSeq(branch, start_commit + 1, Len(branch))

get_pr_commits(pr, branch, start_commit) ==
  IF pr.merged
    THEN IF pr.mergeParents > 1
           THEN <<merge_commit_sha(pr)>>
           ELSE MatchCommits(pr.prCommits, PromotedSince(branch, start_commit), 1)
  ELSE IF pr.state = "closed" THEN pr.closedEvents
  ELSE <<>>

\* ----------------------------------------------------- setup_git_repo

\* A branch's content is the set of changes applied to it.  A change is the
\* number of the original pull request whose work it is, applied cleanly or
\* committed with its conflict markers.
Applied(change) == [change |-> change, form |-> "clean"]

Conflicted(change) == [change |-> change, form |-> "conflicted"]

Has(content, change) == \E t \in content : t.change = change

\* The change a commit carries: that of the pull request it belongs to.
CommitChange(ps, sha) == ps[sha.pr].topic

\* What git does with the cherry-pick of the i-th commit: the oracle names
\* one position and what happens there; every other pick applies as it is.
GitAt(o, i) == IF o.at = i THEN o.git ELSE "clean"

\* A loop that a committed conflict ends
RECURSIVE CherryPickStop(_, _, _, _, _)
CherryPickStop(ps, content, commits, i, o) ==
  IF i > Len(commits)
    THEN [content |-> content, is_draft |-> FALSE, picked |-> i - 1, hit |-> {},
          reach |-> IF commits = <<>> THEN {} ELSE {"git"}]
  ELSE LET change == CommitChange(ps, commits[i])
           how == GitAt(o, i)
       IN  IF how = "clean" /\ ~Has(content, change)
             THEN CherryPickStop(ps, content \cup {Applied(change)}, commits, i + 1, o)
           ELSE IF how = "abort"
             THEN [content |-> content, is_draft |-> TRUE, picked |-> i - 1,
                   hit |-> {"git"}, reach |-> {"git"}]
           ELSE IF how = "conflict"
             THEN [content |-> content \cup {Conflicted(change)}, is_draft |-> TRUE,
                   picked |-> i, hit |-> {"git"}, reach |-> {"git"}]
           ELSE Bind(CherryPickStop(ps, content, commits, i + 1, o), LAMBDA rest :
                      [rest EXCEPT !.is_draft = TRUE])

\* One pass of the loop over the commits (lines 313-340).
\*   clean,    change not on the branch: cherry-pick succeeds
\*   clean,    change already there: cherry-pick fails as empty, --continue
\*             reports nothing to commit, --skip
\*   conflict: cherry-pick fails, add -A, --continue commits the result
\*   abort:    cherry-pick fails, --continue fails otherwise, --abort, break
RECURSIVE CherryPickAll(_, _, _, _, _)
CherryPickAll(ps, content, commits, i, o) ==
  IF i > Len(commits)
    THEN [content |-> content, is_draft |-> FALSE, picked |-> i - 1, hit |-> {},
          reach |-> IF commits = <<>> THEN {} ELSE {"git"}]
  ELSE LET change == CommitChange(ps, commits[i])
           how == GitAt(o, i)
       IN  IF how = "clean" /\ ~Has(content, change)
             THEN CherryPickAll(ps, content \cup {Applied(change)}, commits, i + 1, o)
           ELSE IF how = "abort"
             THEN [content |-> content, is_draft |-> TRUE, picked |-> i - 1,
                   hit |-> {"git"}, reach |-> {"git"}]
           ELSE LET after == IF how = "conflict"
                               THEN content \cup {Conflicted(change)}
                               ELSE content
                IN  Bind(CherryPickAll(ps, after, commits, i + 1, o), LAMBDA rest :
                      [rest EXCEPT
                         !.is_draft = TRUE,
                         !.hit = IF how = "conflict" THEN @ \cup {"git"} ELSE @])

PutBranch(branches, name, content) ==
  [b \in DOMAIN branches \cup {name} |->
     IF b = name THEN content ELSE branches[b]]

\* Returns the fork after the push and is_draft.  The clone fails when the
\* base branch does not exist; the push fails when the oracle says so.
setup_git_repo(ps, branches, backport_base_branch, branch, commits, o) ==
  IF backport_base_branch \notin DOMAIN target
    THEN [fork |-> branches, is_draft |-> TRUE, pushed |-> FALSE, picked |-> 0,
          hit |-> {}, reach |-> {}]
  ELSE Bind(CherryPickAll(ps, target[backport_base_branch], commits, 1, o),
            LAMBDA r :
       IF o.fail = "push"
         THEN [fork |-> branches, is_draft |-> TRUE, pushed |-> FALSE,
               picked |-> r.picked, hit |-> r.hit \cup {"push"},
               reach |-> r.reach \cup {"push"}]
         ELSE [fork |-> PutBranch(branches, branch, r.content),
               is_draft |-> r.is_draft, pushed |-> TRUE, picked |-> r.picked,
               hit |-> r.hit, reach |-> r.reach \cup {"push"}])

\* ------------------------------------------------ create_pull_request

OpenFor(ps, branch, base) ==
  {n \in 1..Len(ps) : ps[n].state = "open" /\ ps[n].head = branch /\ ps[n].base = base}

\* A platform that opens a pull request of a head with nothing new
HostAcceptsEmpty(w, branch, base) ==
  /\ base \in DOMAIN target
  /\ branch \in DOMAIN w.fork
  /\ OpenFor(w.prs, branch, base) = {}

\* repo.create_pull raises GithubException when the platform refuses: the
\* base or the head branch is missing, the head has nothing the base lacks,
\* or an open pull request for the same head and base already exists.
HostAccepts(w, branch, base) ==
  /\ base \in DOMAIN target
  /\ branch \in DOMAIN w.fork
  /\ w.fork[branch] # target[base]
  /\ OpenFor(w.prs, branch, base) = {}

ConflictComment(user) == [kind |-> "conflicts", mention |-> user, versions |-> <<>>]

create_pull_request(w, branch, base, pr, backport_pr_title, commits, is_draft, o) ==
  LET n == Len(w.prs) + 1
      made == [number |-> n, state |-> "open", merged |-> FALSE,
               title |-> backport_pr_title, topic |-> pr.topic, labels |-> {},
               parents |-> pr.parents \o <<pr.number>>, cherry |-> commits,
               head |-> branch, base |-> base, draft |-> is_draft,
               user |-> BotUser, assignees |-> {}, comments |-> <<>>,
               mergeParents |-> 0, prCommits |-> <<>>, closedEvents |-> <<>>,
               mergedBefore |-> {m \in 1..Len(w.prs) : w.prs[m].merged}]
      assigned == [made EXCEPT !.assignees = {pr.user}]
      flagged == [assigned EXCEPT !.labels = {PlainLabel("conflicts")}]
      commented == [flagged EXCEPT !.comments = <<ConflictComment(pr.user)>>]
      raised == \/ o.fail = "assignee"
                \/ is_draft /\ o.fail \in {"conflicts_label", "conflicts_comment"}
      final == IF o.fail = "assignee" THEN made
               ELSE IF ~is_draft \/ o.fail = "conflicts_label" THEN assigned
               ELSE IF o.fail = "conflicts_comment" THEN flagged
               ELSE commented
  IN  IF ~HostAccepts(w, branch, base)
        THEN [w |-> w, result |-> 0, created |-> 0]
      ELSE IF o.fail = "create"
        THEN [w |-> [w EXCEPT !.hit = @ \cup {"create"}], result |-> 0, created |-> 0]
        ELSE [w |-> [w EXCEPT !.prs = Append(@, final), !.recent = <<n>> \o @,
                              !.hit = IF raised THEN @ \cup {o.fail} ELSE @,
                              !.reach = @ \cup {"create", "assignee"}],
              result |-> IF raised THEN 0 ELSE n,
              created |-> n]

\* --------------------------------------------- create_backport_branch

create_backport_branch(w, pr, version, commits, o) ==
  Bind(setup_git_repo(w.prs, w.fork, version, new_branch_name(pr.number, version),
                      commits, o), LAMBDA g :
  LET new_branch == new_branch_name(pr.number, version)
      backport_pr_title == <<version>> \o clean_title(pr)
      backport_base_branch == version
      diffFails == /\ o.fail = "diff"
                   /\ backport_base_branch \in DOMAIN target
                   /\ new_branch \in DOMAIN g.fork
      diffRaises == \/ diffFails
                    \/ backport_base_branch \notin DOMAIN target
                    \/ new_branch \notin DOMAIN g.fork
      noDiff == ~diffRaises /\ g.fork[new_branch] = target[backport_base_branch]
      w1 == [w EXCEPT !.fork = g.fork,
                      !.hit = @ \cup g.hit \cup (IF diffFails THEN {"diff"} ELSE {}),
                      !.reach = @ \cup g.reach \cup {"diff"}]
      step == [version |-> version, branch |-> new_branch, pushed |-> g.pushed,
               picked |-> g.picked, is_draft |-> g.is_draft,
               diff |-> IF diffRaises THEN "unknown"
                        ELSE IF noDiff THEN "empty" ELSE "changed",
               existed |-> OpenFor(w.prs, new_branch, backport_base_branch) # {},
               created |-> 0, returned |-> 0]
  IN  IF noDiff
        THEN [w |-> w1, result |-> 0, step |-> step]
        ELSE Bind(create_pull_request(w1, new_branch, backport_base_branch, pr,
                                      backport_pr_title, commits, g.is_draft, o),
                  LAMBDA c :
               [w |-> c.w, result |-> c.result,
                step |-> [step EXCEPT !.created = c.created, !.returned = c.result]]))

\* ------------------------------------------------------------ backport

WaterfallComment(user, remaining_labels) ==
  [kind |-> "waterfall", mention |-> user,
   versions |-> [i \in 1..Len(remaining_labels) |-> LabelVersion(remaining_labels[i])]]

\* Lines 194-216: the remaining labels and the comment on the new PR; each
\* call is tried on its own and a failure is logged.
AttachRemaining(w, n, remaining_labels, pr, o) ==
  LET labelled == IF o.fail = "labels" THEN w.prs[n]
                  ELSE [w.prs[n] EXCEPT !.labels = @ \cup SeqToSet(remaining_labels)]
      commented == IF o.fail = "comment" THEN labelled
                   ELSE [labelled EXCEPT
                           !.comments = Append(@, WaterfallComment(pr.user, remaining_labels))]
  IN  [w EXCEPT !.prs[n] = commented, !.recent = Touch(@, n),
                !.hit = IF o.fail \in {"labels", "comment"} THEN @ \cup {o.fail} ELSE @,
                !.reach = @ \cup {"labels", "comment"}]

\* sorted_backport_labels in place of sorted_backport_labels[1:]
AllLabels(sorted_backport_labels) == sorted_backport_labels

remaining_labels_of(sorted_backport_labels) == Tail(sorted_backport_labels)

\* A loop that stops behind the first label
ParallelFirstOnly(w, pr, sorted_backport_labels, i, commits, o, steps) ==
  IF sorted_backport_labels = <<>> THEN [w |-> w, steps |-> steps]
  ELSE Bind(create_backport_branch(w, pr, LabelVersion(sorted_backport_labels[1]),
                                   commits, o),
            LAMBDA b : [w |-> b.w, steps |-> Append(steps, b.step)])

\* Lines 227-249: one create_backport_branch per label, in order.
RECURSIVE ParallelLoop(_, _, _, _, _, _, _)
ParallelLoop(w, pr, sorted_backport_labels, i, commits, o, steps) ==
  IF i > Len(sorted_backport_labels) THEN [w |-> w, steps |-> steps]
  ELSE Bind(create_backport_branch(w, pr, LabelVersion(sorted_backport_labels[i]),
                                   commits, o),
            LAMBDA b : ParallelLoop(b.w, pr, sorted_backport_labels, i + 1, commits, o,
                                    Append(steps, b.step)))

created_prs(steps) ==
  LET ok == SelectSeq(steps, LAMBDA st : st.returned # 0)
  IN  [i \in 1..Len(ok) |-> ok[i].returned]

\* Returns the platform after the call and the record of the call.
backport(w, pr, sorted_backport_labels, commits, use_waterfall, o) ==
  LET call == [pr |-> pr.number, labels |-> sorted_backport_labels,
               commits |-> commits, use_waterfall |-> use_waterfall,
               attach |-> <<>>, steps |-> <<>>, created_prs |-> <<>>]
  IN
  IF sorted_backport_labels = <<>> THEN [w |-> w, calls |-> <<>>]
  ELSE IF use_waterfall
    THEN LET current_label == sorted_backport_labels[1]
             remaining_labels == remaining_labels_of(sorted_backport_labels)
             version == LabelVersion(current_label)
         IN  Bind(create_backport_branch(w, pr, version, commits, o),
                  LAMBDA backport_pr :
             [w |-> IF backport_pr.result # 0 /\ remaining_labels # <<>>
                      THEN AttachRemaining(backport_pr.w, backport_pr.result,
                                           remaining_labels, pr, o)
                      ELSE backport_pr.w,
              calls |-> <<[call EXCEPT !.steps = <<backport_pr.step>>,
                                       !.attach = remaining_labels,
                                       !.created_prs = created_prs(<<backport_pr.step>>)]>>])
    ELSE Bind(ParallelLoop(w, pr, sorted_backport_labels, 1, commits, o, <<>>),
              LAMBDA l :
             [w |-> l.w,
              calls |-> <<[call EXCEPT !.steps = l.steps,
                                       !.created_prs = created_prs(l.steps)]>>])

\* ---------------------------------------------------------------- main

Pulls(w) ==
  LET closed == ClosedByUpdate(w.prs, w.recent)
  IN  [i \in 1..Len(closed) |-> w.prs[closed[i]]]

\* A resumption that goes on from the merged backport PR itself
ResumeFromBackport(w, pr, o) ==
  IF TitleVersionMatches(pr) = {} THEN [w |-> w, calls |-> <<>>]
  ELSE Bind(sort_versions(SetToSeq(BackportLabelsOf(pr))),
            LAMBDA sorted_backport_labels :
       backport(w, pr, sorted_backport_labels, <<merge_commit_sha(pr)>>, TRUE, o))

\* Lines 447-512: the cascade is resumed from the merged backport PR found.
ResumeFrom(w, pr, o) ==
  IF TitleVersionMatches(pr) = {} THEN [w |-> w, calls |-> <<>>]
  ELSE Bind(sort_versions(SetToSeq(BackportLabelsOf(pr))),
            LAMBDA sorted_backport_labels :
       LET commits == <<merge_commit_sha(pr)>>
           known == pr.parents # <<>> /\ Head(pr.parents) \in 1..Len(w.prs)
           fetched == known /\ o.fail # "get_pull"
           w1 == [w EXCEPT !.hit = IF known /\ ~fetched THEN @ \cup {"get_pull"} ELSE @,
                           !.reach = IF known THEN @ \cup {"get_pull"} ELSE @]
           original_pr == IF fetched THEN w.prs[Head(pr.parents)] ELSE pr
           has_backport_all == fetched /\ PlainLabel("backport_all") \in original_pr.labels
           use_waterfall == ~has_backport_all
       IN  backport(w1, original_pr, sorted_backport_labels, commits, use_waterfall, o))

\* Lines 559: the strategy of the trigger path
trigger_use_waterfall(args, has_backport_all) ==
  ~(args.parallel \/ (has_backport_all /\ ~args.waterfall))

\* Lines 531-569: the loop over closed_prs.
RECURSIVE TriggerLoop(_, _, _, _, _, _)
TriggerLoop(w, closed_prs, i, args, o, calls) ==
  IF i > Len(closed_prs) THEN [w |-> w, calls |-> calls]
  ELSE LET pr == w.prs[closed_prs[i]]
           backport_labels == IF args.pull_request # 0 THEN <<args.label>>
                              ELSE SetToSeq(BackportLabelsOf(pr))
           has_backport_all == PlainLabel("backport_all") \in pr.labels
       IN  IF PlainLabel("promoted-to-master") \notin pr.labels \/ backport_labels = <<>>
             THEN TriggerLoop(w, closed_prs, i + 1, args, o, calls)
             ELSE IF o.fail = "get_commit"
               \* line 548 is in no try block: the exception ends main()
               THEN [w |-> [w EXCEPT !.hit = @ \cup {"get_commit"},
                                     !.reach = @ \cup {"get_commit"}],
                     calls |-> calls]
             ELSE Bind(sort_versions(backport_labels), LAMBDA sorted_backport_labels :
                  Bind(get_pr_commits(pr, stable, args.start), LAMBDA commits :
                  Bind(backport([w EXCEPT !.reach = @ \cup {"get_commit"}], pr,
                                sorted_backport_labels, commits,
                                trigger_use_waterfall(args, has_backport_all), o),
                       LAMBDA b :
                  TriggerLoop(b.w, closed_prs, i + 1, args, o, calls \o b.calls))))

\* commit.get_pulls() for every commit of repo.compare(start, end)
RangePulls(start_commit) ==
  LET commits == PromotedSince(stable, start_commit)
  IN  [i \in 1..Len(commits) |-> commits[i].sha.pr]

\* A main() that looks for merged backport PRs also under --pull-request
MainAlwaysScans(w, args, o) ==
  Bind(IF ~args.parallel
         THEN Bind(Pulls(w), LAMBDA pulls : find_merged_prs_with_labels(pulls).found)
         ELSE <<>>,
       LAMBDA merged_prs_with_labels :
      IF merged_prs_with_labels # <<>>
        THEN Bind(ResumeFrom(w, w.prs[merged_prs_with_labels[1]], o), LAMBDA r :
                 [w |-> r.w, calls |-> r.calls, path |-> "resume",
                  found |-> merged_prs_with_labels[1]])
        ELSE Bind(IF args.pull_request # 0 THEN <<args.pull_request>>
                  ELSE IF args.range THEN RangePulls(args.start)
                  ELSE <<>>,
                  LAMBDA closed_prs :
             Bind(TriggerLoop(w, closed_prs, 1, args, o, <<>>), LAMBDA r :
                 [w |-> r.w, calls |-> r.calls, path |-> "trigger", found |-> 0])))

main(w, args, o) ==
  Bind(IF args.pull_request = 0 /\ ~args.parallel
         THEN Bind(Pulls(w), LAMBDA pulls : find_merged_prs_with_labels(pulls).found)
         ELSE <<>>,
       LAMBDA merged_prs_with_labels :
      IF merged_prs_with_labels # <<>>
        THEN Bind(ResumeFrom(w, w.prs[merged_prs_with_labels[1]], o), LAMBDA r :
                 [w |-> r.w, calls |-> r.calls, path |-> "resume",
                  found |-> merged_prs_with_labels[1]])
        ELSE Bind(IF args.pull_request # 0 THEN <<args.pull_request>>
                  ELSE IF args.range THEN RangePulls(args.start)
                  ELSE <<>>,
                  LAMBDA closed_prs :
             Bind(TriggerLoop(w, closed_prs, 1, args, o, <<>>), LAMBDA r :
                 [w |-> r.w, calls |-> r.calls, path |-> "trigger", found |-> 0])))

\* ------------------------------------------------------ the state machine

MaxPRs == 5

Ver(major, minor) == << <<major>>, <<minor>> >>

V1 == Ver("5", "1")

V2 == Ver("5", "2")

V3 == Ver("5", "3")

Versions == {V1, V2, V3}

NoLabel == PlainLabel("")

Promoted == PlainLabel("promoted-to-master")

BackportAll == PlainLabel("backport_all")

\* A merged pull request of the main branch, as the platform holds it.
Original(n, author, labels, words, parents) ==
  [number |-> n, state |-> "closed", merged |-> TRUE, title |-> <<>>, topic |-> n,
   labels |-> labels, parents |-> <<>>, cherry |-> <<>>, head |-> NoBranch,
   base |-> NoVersion, draft |-> FALSE, user |-> author, assignees |-> {},
   comments |-> <<>>, mergeParents |-> parents, prCommits |-> <<words>>,
   closedEvents |-> <<>>, mergedBefore |-> {}]

LabelsOf(versions) == {BackportLabel(v) : v \in versions}

NoRun == [args |-> [pull_request |-> 0, label |-> NoLabel, range |-> FALSE,
                    start |-> 0, waterfall |-> FALSE, parallel |-> FALSE],
          o |-> [git |-> "clean", at |-> 1, fail |-> "none"],
          path |-> "none", found |-> 0, again |-> FALSE, calls |-> <<>>]

NoProbe == [in |-> <<>>, out |-> <<>>]

Init ==
  /\ \E first \in {{V3, V2}}, all \in BOOLEAN, promoted \in BOOLEAN,
        parents \in {2} :
       prs = << Original(1, "alice",
                         LabelsOf(first) \cup {Promoted}
                           \cup (IF all THEN {BackportAll} ELSE {}),
                         <<"fix">>, parents),
                Original(2, "bob",
                         LabelsOf({V3, V2, V1}) \cup (IF promoted THEN {Promoted} ELSE {}),
                         <<"add">>, 2) >>
  /\ recent = <<2, 1>>
  /\ target = [v \in Versions |-> {}]
  /\ fork = [b \in {} |-> {}]
  /\ stable = << [sha |-> [pr |-> 1, k |-> IF prs[1].mergeParents > 1 THEN 0 ELSE 1],
                  message |-> IF prs[1].mergeParents > 1
                                THEN <<"Merge", "fix">> ELSE <<"fix">>],
                 [sha |-> [pr |-> 2, k |-> 0], message |-> <<"Merge", "add">>] >>
  /\ lastRun = NoRun
  /\ resumed = {}
  /\ faults = 0
  /\ probe = NoProbe

GitOutcomes == {"clean", "conflict", "abort"}

FailPoints == {"none", "get_pull", "get_commit", "push", "diff", "create", "assignee",
               "conflicts_label", "conflicts_comment", "labels", "comment"}

MaxCommits == 1

MaxFaults == 1

\* The calls that are made only for a backport with conflicts.
DraftFailPoints == {"conflicts_label", "conflicts_comment"}

Oracles ==
  [git : GitOutcomes, at : 1..MaxCommits, fail : {"none"}]
  \cup [git : {"clean"}, at : {1}, fail : FailPoints \ DraftFailPoints]
  \cup [git : {"conflict"}, at : 1..MaxCommits, fail : DraftFailPoints]

ArgLabels == {BackportLabel(V1)}

Arguments ==
  [pull_request : {0}, label : {NoLabel}, range : {TRUE}, start : {0},
   waterfall : BOOLEAN, parallel : BOOLEAN]
  \cup
  [pull_request : {2}, label : ArgLabels, range : {FALSE}, start : {0},
   waterfall : {FALSE}, parallel : BOOLEAN]

World == [prs |-> prs, recent |-> recent, fork |-> fork, hit |-> {}, reach |-> {}]

PlainOracle == [git |-> "clean", at |-> 1, fail |-> "none"]

\* The oracles that differ from the plain one at a call the run makes: a
\* run fails only at a call it reaches, and until then it is the plain run.
\* When the failures of the behaviour are used up, only the plain one is left.
Reachable(args, oracles) ==
  IF faults >= MaxFaults THEN {PlainOracle}
  ELSE Bind(main(World, args, PlainOracle).w.reach, LAMBDA reach :
    {o \in oracles :
       \/ o = PlainOracle
       \/ o.git # "clean" /\ "git" \in reach /\ o.fail \in DraftFailPoints \cup {"none"}
       \/ o.git = "clean" /\ o.at = 1 /\ o.fail \in reach})

\* One invocation of the script, from parse_args() to the end of main().
RunUnder(args, o, limit, most) ==
  \E r \in {main(World, args, o)} :
  LET failed == r.w.hit # {}
  IN
  \* an oracle that names a call the run never makes is the plain oracle
  /\ o.fail = "none" \/ o.fail \in r.w.hit
  /\ o.git = "clean" \/ "git" \in r.w.hit
  /\ failed => faults < most
  /\ faults' = IF failed THEN faults + 1 ELSE faults
  /\ Len(r.w.prs) <= limit
  /\ prs' = r.w.prs
  /\ recent' = r.w.recent
  /\ fork' = r.w.fork
  /\ lastRun' = [args |-> args, o |-> o, path |-> r.path, found |-> r.found,
                 again |-> r.found \in resumed, calls |-> r.calls]
  /\ resumed' = IF r.found = 0 THEN resumed ELSE resumed \cup {r.found}
  /\ UNCHANGED <<target, stable, probe>>

RunWithin(args, o, limit) == RunUnder(args, o, limit, MaxFaults)

Run(args, o) == RunWithin(args, o, MaxPRs)

Invoke == \E args \in Arguments : \E o \in Reachable(args, Oracles) : Run(args, o)

\* What was committed with conflict markers is resolved before the merge.
Resolved(content) == {Applied(t.change) : t \in content}

\* A maintainer merges an open backport pull request into its base branch.
Merge ==
  \E n \in 1..Len(prs) :
    /\ prs[n].state = "open"
    /\ prs[n].head \in DOMAIN fork
    /\ prs' = [prs EXCEPT ![n].state = "closed", ![n].merged = TRUE,
                          ![n].draft = FALSE, ![n].mergeParents = 2]
    /\ recent' = Touch(recent, n)
    /\ target' = [target EXCEPT ![prs[n].base] = @ \cup Resolved(fork[prs[n].head])]
    /\ lastRun' = NoRun
    /\ UNCHANGED <<fork, stable, resumed, faults, probe>>

Next == Invoke \/ Merge

Spec == Init /\ [][Next]_vars

\* ------------------------------------------- sort_versions on its own

MaxLabels == 3

\* "5.3", "5.1", "10.2", "5.03" (the key of "5.3"), "0.0", "x.y", "5x.1",
\* "5" and "5.1.9" (the key of "5.1")
SortLabels ==
  { BackportLabel(Ver("5", "3")), BackportLabel(Ver("5", "1")),
    BackportLabel(<< <<"1", "0">>, <<"2">> >>),
    BackportLabel(<< <<"5">>, <<"0", "3">> >>),
    BackportLabel(Ver("0", "0")),
    BackportLabel(Ver("x", "y")),
    BackportLabel(<< <<"5", "x">>, <<"1">> >>),
    BackportLabel(<< <<"5">> >>),
    BackportLabel(<< <<"5">>, <<"1">>, <<"9">> >>) }

QuietWorld ==
  /\ prs = <<>>
  /\ recent = <<>>
  /\ target = [v \in Versions |-> {}]
  /\ fork = [b \in {} |-> {}]
  /\ stable = <<>>
  /\ lastRun = NoRun
  /\ resumed = {}
  /\ faults = 0

InitSort == QuietWorld /\ probe = NoProbe

SortOne ==
  \E label \in SortLabels :
    /\ Len(probe.in) < MaxLabels
    /\ probe' = [in |-> Append(probe.in, label),
                 out |-> sort_versions(Append(probe.in, label))]
    /\ UNCHANGED <<prs, recent, target, fork, stable, lastRun, resumed, faults>>

NextSort == SortOne

SpecSort == InitSort /\ [][NextSort]_vars

\* <major>.<minor>, both numbers
WellFormed(label) == backport_label_pattern(label)

\* a suffix that float() refuses
NonNumeric(label) ==
  LET parts == LabelVersion(label) IN
  \/ ~Numeric(parts[1])
  \/ Len(parts) > 1 /\ ~Numeric(parts[2])

Pair(label) == <<FloatValue(label.parts[1]), FloatValue(label.parts[2])>>

Count(seq, x) == Cardinality({i \in 1..Len(seq) : seq[i] = x})

IsPermutation(a, b) ==
  /\ Len(a) = Len(b)
  /\ \A i \in 1..Len(a) : Count(a, a[i]) = Count(b, a[i])

SameOrder(a, b, P(_)) == SelectSeq(a, P) = SelectSeq(b, P)

MaxMerged == 21

MaxUnmerged == 1

MaxQualifying == 2

\* How many pull requests the lists have behind the last one the scan has
\* looked at
MaxBehind == 1

\* Closed pull requests as the scanner meets them: closed without a merge
\* (with the labels and the title of a backport), merged with backport labels
\* under a plain title, merged with a backport title and no backport label,
\* and merged with both.
ClosedUnmerged(n) ==
  [Original(n, "carol", LabelsOf({V1}), <<"fix">>, 2)
     EXCEPT !.merged = FALSE, !.title = <<V2>>]

MergedLabelled(n) == Original(n, "carol", LabelsOf({V1}), <<"fix">>, 2)

MergedTitled(n) ==
  [Original(n, "carol", {Promoted}, <<"fix">>, 2) EXCEPT !.title = <<V2>>]

MergedBackport(n) ==
  [Original(n, "carol", LabelsOf({V1}), <<"fix">>, 2) EXCEPT !.title = <<V2>>]

InitScan == QuietWorld /\ probe = [in |-> <<>>, out |-> find_merged_prs_with_labels(<<>>)]

HowMany(pulls, P(_)) == Len(SelectSeq(pulls, P))

\* One more closed pull request, updated before all the others
Older(pr) ==
  /\ Len(probe.in) < probe.out.inspected + MaxBehind
  /\ probe' = [in |-> Append(probe.in, pr),
               out |-> find_merged_prs_with_labels(Append(probe.in, pr))]
  /\ UNCHANGED <<prs, recent, target, fork, stable, lastRun, resumed, faults>>

Plain(pr) == pr.merged /\ ~(BackportLabelsOf(pr) # {} /\ TitleStartsWithBackport(pr))

Qualifies(pr) ==
  pr.merged /\ BackportLabelsOf(pr) # {} /\ TitleStartsWithBackport(pr)

OlderUnmerged ==
  /\ HowMany(probe.in, LAMBDA pr : ~pr.merged) < MaxUnmerged
  /\ Older(ClosedUnmerged(Len(probe.in) + 1))

OlderMerged ==
  /\ HowMany(probe.in, Plain) < MaxMerged
  /\ Older(IF HowMany(probe.in, Plain) % 2 = 0
             THEN MergedLabelled(Len(probe.in) + 1)
             ELSE MergedTitled(Len(probe.in) + 1))

OlderBackport ==
  /\ HowMany(probe.in, Qualifies) < MaxQualifying
  /\ Older(MergedBackport(Len(probe.in) + 1))

NextScan == OlderUnmerged \/ OlderMerged \/ OlderBackport

SpecScan == InitScan /\ [][NextScan]_vars

\* The positions of the list among its first k closed pull requests
ClosedWindow(pulls, k) == {i \in 1..Len(pulls) : i <= k}

\* The positions of the list up to its k-th merged pull request
MergedWindow(pulls, k) ==
  {i \in 1..Len(pulls) : Cardinality({j \in 1..(i - 1) : pulls[j].merged}) < k}

\* What a scan of the window W has to return: at most one pull request, the
\* first of W that qualifies, and nothing looked at behind it or behind W.
ScansWindow(pulls, W, out) ==
  LET hits == {i \in W : Qualifies(pulls[i])} IN
  /\ Len(out.found) <= 1
  /\ hits = {} => out.found = <<>> /\ \A i \in 1..out.inspected : i \in W
  /\ hits # {} =>
       \E i \in hits :
         /\ \A j \in hits : i <= j
         /\ out.found = <<pulls[i].number>>
         /\ out.inspected = i

\* C10 as claimed: the scanner returns the most recently updated qualifying
\* pull request among the 20 most recently updated closed ones, nothing when
\* none of those qualifies, and looks at no pull request behind those 20.
C10_AsClaimed == ScansWindow(probe.in, ClosedWindow(probe.in, ScanLimit), probe.out)

\* C10: the scanner returns at most one pull request: the most recently
\* updated qualifying one among the closed pull requests up to the 20th
\* merged one (closed pull requests that were not merged are passed over and
\* do not count), nothing when none of those qualifies, and it looks at no
\* pull request behind the 20th merged one.
C10_Scanner == ScansWindow(probe.in, MergedWindow(probe.in, ScanLimit), probe.out)

\* Two qualifying pull requests are listed, the newer of them at the 21st
\* place behind one closed without a merge and 19 merged ones that do not
\* qualify, and the scanner has returned the newer and looked no further.
C10_Witness ==
  /\ HowMany(probe.in, Qualifies) = 2
  /\ Len(probe.in) > ScanLimit + 1
  /\ Qualifies(probe.in[ScanLimit + 1])
  /\ \E i \in 1..ScanLimit : ~probe.in[i].merged
  /\ probe.out = [found |-> <<probe.in[ScanLimit + 1].number>>,
                  inspected |-> ScanLimit + 1]

\* ------------------------------------------------- the two strategies

Last(seq) == seq[Len(seq)]

\* What one call of backport() has left behind in a step of the system: the
\* pull requests opened for the PR it was called with, and the branches of
\* that PR it has made or changed.
OpenedBy(c) ==
  {n \in (Len(prs) + 1)..Len(prs') : Last(prs'[n].parents) = c.pr}

BranchesBy(c) ==
  {b \in DOMAIN fork' : b.pr = c.pr /\ (b \notin DOMAIN fork \/ fork'[b] # fork[b])}

LabelsAs(seq) == {BackportLabel(LabelVersion(seq[i])) : i \in 1..Len(seq)}

WaterfallCalls == {k \in 1..Len(lastRun'.calls) : lastRun'.calls[k].use_waterfall}

ParallelCalls == {k \in 1..Len(lastRun'.calls) : ~lastRun'.calls[k].use_waterfall}

FaultFree(run) == run.o.fail = "none" /\ run.o.git = "clean"

\* The PR a backport is derived from: the first Parent PR of its body
OriginOf(ps, n) == IF ps[n].parents = <<>> THEN n ELSE Head(ps[n].parents)

\* The priority rule: --parallel, else --waterfall, else backport_all
RuleSaysWaterfall(args, pr) ==
  IF args.parallel THEN FALSE
  ELSE IF args.waterfall THEN TRUE
  ELSE PlainLabel("backport_all") \notin pr.labels

\* C3 as claimed: every backport that main() dispatches, from the trigger
\* path or from the resumption path, goes by the priority rule: --parallel,
\* else --waterfall, else the backport_all label of the originating PR, else
\* waterfall.
C3_StrategyRule ==
  FaultFree(lastRun) =>
    \A k \in 1..Len(lastRun.calls) :
      LET c == lastRun.calls[k] IN
      c.use_waterfall = RuleSaysWaterfall(lastRun.args, prs[OriginOf(prs, c.pr)])

\* backport/<v>-done
DoneLabel(version) == [name |-> "backport/-done", parts |-> version]

\* C5 as claimed: when an invocation resumes from a merged backport PR whose
\* title names the version v and whose body names the parent PR n, PR n
\* carries the label backport/<v>-done after it.
C5_CompletionLabel ==
  lastRun.path = "resume" /\ FaultFree(lastRun) =>
    LET pr == prs[lastRun.found] IN
    pr.parents # <<>> /\ TitleVersionMatches(pr) # {}
      => DoneLabel(processed_version(pr)) \in prs[Head(pr.parents)].labels

\* C6 as claimed: an invocation that resumes from a merged backport PR which
\* an earlier invocation has resumed from already pushes no branch and opens
\* no pull request.
C6_ReprocessingGuard ==
  lastRun.path = "resume" /\ lastRun.again /\ FaultFree(lastRun) =>
    \A k \in 1..Len(lastRun.calls) :
      \A i \in 1..Len(lastRun.calls[k].steps) :
        LET st == lastRun.calls[k].steps[i] IN ~st.pushed /\ st.created = 0

\* ------------------------------------------------ the waterfall cascade

\* No backport_all label, no --parallel, no --pull-request
InitWaterfall ==
  /\ Init
  /\ \A n \in 1..Len(prs) : PlainLabel("backport_all") \notin prs[n].labels

WaterfallArguments == {args \in Arguments : args.pull_request = 0 /\ ~args.parallel}

InvokeWaterfall ==
  \E args \in WaterfallArguments : \E o \in Reachable(args, Oracles) : Run(args, o)

NextWaterfall == InvokeWaterfall \/ Merge

SpecWaterfall == InitWaterfall /\ [][NextWaterfall]_vars

Originals == {n \in 1..Len(prs) : prs[n].parents = <<>>}

\* The backport PRs derived from the original PR n
BackportsOf(n) == {p \in 1..Len(prs) : prs[p].parents # <<>> /\ OriginOf(prs, p) = n}

\* C7 as claimed: under the waterfall strategy at most one backport PR
\* derived from one original PR is open at any time.
C7_OneOpenBackport ==
  \A n \in Originals :
    Cardinality({p \in BackportsOf(n) : prs[p].state = "open"}) <= 1

VersionBelow(a, b) ==
  KeyLess(version_key(BackportLabel(a)), version_key(BackportLabel(b)))

\* C8 as claimed: the backport PRs of one original PR are created in
\* strictly descending order of their versions, each after the one before it
\* has been merged.
C8_DescendingCascade ==
  \A n \in Originals :
    \A p, q \in BackportsOf(n) :
      p < q => /\ VersionBelow(prs[q].base, prs[p].base)
               /\ p \in prs[q].mergedBefore

\* ------------------------------------------------- the cascade, drained

\* Invocations without --pull-request and --parallel in which no call fails
\* and every cherry-pick applies, again and again for ever, and every open
\* backport PR merged in the end.  The two original PRs have five versions
\* between them: with no call failing no more than seven PRs come to exist.
MaxFairPRs == 7

InvokeFair == \E args \in WaterfallArguments : RunWithin(args, PlainOracle, MaxFairPRs)

NextFair == InvokeFair \/ Merge

SpecFair ==
  /\ InitWaterfall
  /\ [][NextFair]_vars
  /\ []<><<InvokeFair>>_vars
  /\ WF_vars(Merge)

OriginalNumbers == {1, 2}

Started(n) == BackportsOf(n) # {}

Drained(n) ==
  \A l \in BackportLabelsOf(prs[n]) :
    \E p \in BackportsOf(n) : prs[p].base = LabelVersion(l)

\* C9 as claimed: with invocations for ever, every opened backport PR merged
\* and no failing call, every original PR whose cascade has started gets in
\* the end a backport PR for each of its versions, also with the cascades of
\* two original PRs under way.
C9_EventualDrain == \A n \in OriginalNumbers : Started(n) ~> Drained(n)

\* ------------------------------------------------- the backport PRs

\* The pull requests the script has created
Created == {n \in 1..Len(prs) : prs[n].user = BotUser}

\* The 'Parent PR: #<number>' lines of a body, in the order of the text
ParentReferences(pr) == pr.parents

\* C11 as claimed: the body of every backport PR the script has created has
\* exactly one 'Parent PR: #<number>' line, whatever path has created it.
C11_OneParentReference ==
  \A n \in Created : Len(ParentReferences(prs[n])) = 1

\* ------------------------------------------------------- conflicts

\* The steps of the last invocation, over all its calls
StepsOf(run) ==
  {st \in UNION {SeqToSet(run.calls[k].steps) : k \in 1..Len(run.calls)} : TRUE}

\* The materialization of a step has met a cherry-pick conflict and has
\* committed it: git reports a conflict at a commit the loop has come to.
ConflictedStep(run, st) == run.o.git = "conflict" /\ st.picked >= run.o.at

\* C12 as claimed: every pull request opened from a materialization with a
\* cherry-pick conflict is a draft, carries the label 'conflicts' and a
\* comment that mentions the author of the original pull request; and a
\* conflicted backport whose branch differs from the target is never left
\* without a pull request.
C12_ConflictsMarked ==
  \A st \in StepsOf(lastRun) :
    ConflictedStep(lastRun, st) =>
      /\ st.created # 0 =>
           /\ prs[st.created].draft
           /\ PlainLabel("conflicts") \in prs[st.created].labels
           /\ \E i \in 1..Len(prs[st.created].comments) :
                LET c == prs[st.created].comments[i] IN
                /\ c.kind = "conflicts"
                /\ c.mention = prs[OriginOf(prs, st.created)].user
      /\ st.pushed /\ fork[st.branch] # target[st.version] =>
           OpenFor(prs, st.branch, st.version) # {}

\* ------------------------------------------- cherry-picks, one by one

MaxPicks == 3

\* Three merged pull requests of one commit each, three different changes
PickOriginals ==
  << Original(1, "alice", LabelsOf({V3, V2}) \cup {Promoted}, <<"fix">>, 2),
     Original(2, "bob", {}, <<"add">>, 2),
     Original(3, "carol", {}, <<"tidy">>, 2) >>

PickShas == {[pr |-> n, k |-> 0] : n \in 1..3}

PickLists == UNION {[1..n -> PickShas] : n \in 1..MaxPicks}

PickOracles == [git : GitOutcomes, at : 1..MaxPicks, fail : {"none"}]

\* The commits and what git does with them are drawn here; the change of
\* pull request 2 may be on the branch of one version already.
InitPick ==
  /\ prs = PickOriginals
  /\ recent = <<3, 2, 1>>
  /\ \E there \in SUBSET {Applied(2)} :
       target = [v \in Versions |-> IF v = V2 THEN there ELSE {}]
  /\ fork = [b \in {} |-> {}]
  /\ stable = <<>>
  /\ lastRun = NoRun
  /\ resumed = {}
  /\ faults = 0
  /\ \E commits \in PickLists, o \in PickOracles :
       probe = [in |-> [commits |-> commits, o |-> o], out |-> <<>>]

\* backport() of pull request 1 to two versions with the commits drawn
Dispatch ==
  /\ probe.out = <<>>
  /\ \E use_waterfall \in BOOLEAN :
     \E r \in {backport(World, prs[1], <<BackportLabel(V3), BackportLabel(V2)>>,
                        probe.in.commits, use_waterfall, probe.in.o)} :
       /\ prs' = r.w.prs
       /\ recent' = r.w.recent
       /\ fork' = r.w.fork
       /\ lastRun' = [NoRun EXCEPT !.o = probe.in.o, !.path = "trigger", !.calls = r.calls]
       /\ probe' = [probe EXCEPT !.out = <<r.w.hit>>]
  /\ UNCHANGED <<target, stable, resumed, faults>>

NextPick == Dispatch

SpecPick == InitPick /\ [][NextPick]_vars

\* The changes of the commits at the places given
ChangesAt(commits, places) == {CommitChange(prs, commits[j]) : j \in places}

\* The cherry-pick of a commit the loop comes to has failed
PickFailed(o, commits) == o.git # "clean" /\ o.at <= Len(commits)

\* C13 as claimed: a conflict on the i-th commit never keeps the commits
\* behind it from being cherry-picked onto the same branch, and in a
\* parallel dispatch never keeps the other versions from being processed.
C13_AsClaimed ==
  \A k \in 1..Len(lastRun.calls) :
    LET c == lastRun.calls[k] IN
    /\ ~c.use_waterfall => Len(c.steps) = Len(c.labels)
    /\ \A i \in 1..Len(c.steps) :
         PickFailed(lastRun.o, c.commits) =>
           /\ c.steps[i].picked = Len(c.commits)
           /\ \A ch \in ChangesAt(c.commits, (lastRun.o.at + 1)..Len(c.commits)) :
                Has(fork[c.steps[i].branch], ch)

\* C13: a conflict on the i-th commit that 'cherry-pick --continue' commits
\* keeps no commit behind it from being cherry-picked: the loop goes through
\* all the commits, the branch pushed holds the change of every one of
\* them, that of the i-th with its conflict, and the backport is a draft.
\* When 'cherry-pick --continue' fails for another reason than 'nothing to
\* commit', the cherry-pick is aborted and the loop ends: the branch pushed
\* holds the target and the commits before the i-th only, as a draft.  In
\* both cases a parallel dispatch goes through every version, in order.
C13_ConflictContinues ==
  \A k \in 1..Len(lastRun.calls) :
    LET c == lastRun.calls[k]
        o == lastRun.o
    IN
    /\ ~c.use_waterfall =>
         /\ Len(c.steps) = Len(c.labels)
         /\ \A i \in 1..Len(c.steps) : c.steps[i].version = LabelVersion(c.labels[i])
    /\ \A i \in 1..Len(c.steps) :
         LET st == c.steps[i] IN
         /\ o.git = "conflict" /\ o.at <= Len(c.commits) =>
              /\ st.picked = Len(c.commits) /\ st.pushed /\ st.is_draft
              /\ Conflicted(CommitChange(prs, c.commits[o.at])) \in fork[st.branch]
              /\ \A ch \in ChangesAt(c.commits, 1..Len(c.commits)) :
                   Has(fork[st.branch], ch)
         /\ o.git = "abort" /\ o.at <= Len(c.commits) =>
              /\ st.picked = o.at - 1 /\ st.pushed /\ st.is_draft
              /\ fork[st.branch] = target[st.version]
                   \cup {Applied(ch) : ch \in ChangesAt(c.commits, 1..(o.at - 1))}

\* A parallel dispatch of three commits of three changes, the first of
\* which conflicts: both versions have the three changes on their branch.
C13_Witness ==
  \E k \in 1..Len(lastRun.calls) :
    LET c == lastRun.calls[k] IN
    /\ ~c.use_waterfall /\ Len(c.steps) = 2
    /\ lastRun.o.git = "conflict" /\ lastRun.o.at = 1
    /\ Len(c.commits) = 3
    /\ Cardinality(ChangesAt(c.commits, 1..3)) = 3
    /\ \A i \in 1..2 :
         /\ c.steps[i].picked = 3
         /\ \A ch \in ChangesAt(c.commits, 2..3) :
              Applied(ch) \in fork[c.steps[i].branch]

\* ------------------------------------------------- nothing to backport

\* The branch of a step holds what its target holds, and nothing else
NothingNew(st) ==
  /\ st.version \in DOMAIN target
  /\ st.branch \in DOMAIN fork
  /\ fork[st.branch] = target[st.version]

MergedBefore(ps, st) ==
  \E m \in 1..Len(ps) :
    ps[m].merged /\ ps[m].head = st.branch /\ ps[m].base = st.version

\* C15 as claimed: an invocation that follows one of the same arguments,
\* with nothing changed on the platform or the target branches and git and
\* the platform answering as before, creates no pull request; and once a
\* backport pull request of an original and a version has been merged, a
\* materialization of the same original and version finds an empty diff
\* and opens no pull request.
C15_Idempotent ==
  [][lastRun' # NoRun =>
       /\ lastRun # NoRun /\ lastRun'.args = lastRun.args /\ lastRun'.o = lastRun.o
            => Len(prs') = Len(prs)
       /\ \A st \in StepsOf(lastRun') :
            MergedBefore(prs, st) => st.diff = "empty" /\ st.created = 0]_vars

\* ------------------------------------------------ one failure, one item

\* A pull request the loop of main() dispatches a backport for
Dispatchable(pr) == Promoted \in pr.labels /\ BackportLabelsOf(pr) # {}

\* The last invocation has gone through the pull requests of the commit
\* range, lines 517-569
RangeRun(run) ==
  run.path = "trigger" /\ run.args.pull_request = 0 /\ run.args.range

DispatchedFor(run) == {run.calls[k].pr : k \in 1..Len(run.calls)}

\* C16 as claimed: a failure of a call to the platform for one item never
\* ends the invocation: every pull request of the commit range that is to
\* be backported is dispatched, and a parallel dispatch goes through every
\* one of its versions.
C16_FailureIsolated ==
  /\ RangeRun(lastRun) =>
       \A n \in SeqToSet(RangePulls(lastRun.args.start)) :
         Dispatchable(prs[n]) => n \in DispatchedFor(lastRun)
  /\ \A k \in 1..Len(lastRun.calls) :
       ~lastRun.calls[k].use_waterfall =>
         Len(lastRun.calls[k].steps) = Len(lastRun.calls[k].labels)

\* ------------------------------------------------ the pending labels

\* C17 as claimed: the pull request a waterfall call with remaining labels
\* has created carries, at the end of the invocation, every remaining
\* label and the comment that lists the pending versions, when no call
\* that adds these labels or posts this comment has failed: a failure of
\* the assignee call, of the 'conflicts' label call or of the conflicts
\* comment in create_pull_request does not leave it without them.
C17_PendingLabels ==
  \A k \in 1..Len(lastRun.calls) :
    LET c == lastRun.calls[k] IN
    c.use_waterfall /\ Len(c.labels) > 1 /\ lastRun.o.fail \notin {"labels", "comment"} =>
      \A i \in 1..Len(c.steps) :
        LET n == c.steps[i].created IN
        n # 0 =>
          /\ SeqToSet(Tail(c.labels)) \subseteq prs[n].labels
          /\ \E j \in 1..Len(prs[n].comments) :
               /\ prs[n].comments[j].kind = "waterfall"
               /\ prs[n].comments[j].versions =
                    [m \in 1..(Len(c.labels) - 1) |-> LabelVersion(c.labels[m + 1])]

\* ------------------------------------------------------ get_pr_commits

MaxTitles == 2

MaxPromoted == 2

MaxEvents == 2

\* Title lines of commits; the first is the beginning of the second
CommitTitles == {<<"fix">>, <<"fix", "bug">>, <<"add">>}

\* Messages of promoted commits: a title line and what follows it
CommitMessages == {<<"fix">>, <<"fix", "bug", "more">>, <<"add", "more">>}

TitleLists == UNION {[1..n -> CommitTitles] : n \in 0..MaxTitles}

\* The promoted commits are told apart by their place on the branch
PromotedLists ==
  UNION {{[j \in 1..n |-> [sha |-> [pr |-> 9, k |-> j], message |-> ms[j]]] :
            ms \in [1..n -> CommitMessages]} : n \in 0..MaxPromoted}

EventLists == UNION {[1..n -> {[pr |-> 8, k |-> 1], [pr |-> 8, k |-> 2]}] : n \in 1..MaxEvents}

\* The pull requests get_pr_commits is asked about
MergedWithMergeCommit == Original(1, "alice", {}, <<"fix">>, 2)

MergedWithout(titles) ==
  [Original(1, "alice", {}, <<"fix">>, 1) EXCEPT !.prCommits = titles]

ClosedWith(events) ==
  [Original(1, "alice", {}, <<"fix">>, 0)
     EXCEPT !.merged = FALSE, !.closedEvents = events]

StillOpen ==
  [Original(1, "alice", {}, <<"fix">>, 0) EXCEPT !.merged = FALSE, !.state = "open"]

CommitsInputs ==
  {[pr |-> MergedWithout(titles), branch |-> promoted, start |-> start] :
     titles \in TitleLists, promoted \in PromotedLists, start \in 0..1}
  \cup
  {[pr |-> pr, branch |-> promoted, start |-> 0] :
     pr \in {MergedWithMergeCommit, StillOpen} \cup {ClosedWith(ev) : ev \in EventLists},
     promoted \in {p \in PromotedLists : Len(p) = 1}}

InitCommits ==
  /\ QuietWorld
  /\ \E in \in CommitsInputs : probe = [in |-> in, out |-> <<>>, done |-> FALSE]

Fetch ==
  /\ ~probe.done
  /\ probe' = [probe EXCEPT
                 !.out = get_pr_commits(probe.in.pr, probe.in.branch, probe.in.start),
                 !.done = TRUE]
  /\ UNCHANGED <<prs, recent, target, fork, stable, lastRun, resumed, faults>>

NextCommits == Fetch

SpecCommits == InitCommits /\ [][NextCommits]_vars

\* The promoted range of the input
RangeOf(in) == PromotedSince(in.branch, in.start)

\* The pairs of a commit of the pull request and a promoted commit whose
\* message starts with its title line
MatchPairs(in) ==
  {p \in (1..Len(in.pr.prCommits)) \X (1..Len(RangeOf(in))) :
     StartsWith(RangeOf(in)[p[2]].message, in.pr.prCommits[p[1]])}

\* The place of a pair when the pairs are put in the order of the commits
\* of the pull request, and under one commit in the order of the range
RankOf(in, p) ==
  Cardinality({q \in MatchPairs(in) :
                 q[1] < p[1] \/ (q[1] = p[1] /\ q[2] <= p[2])})

InPRCommitOrder(in, out) ==
  /\ Len(out) = Cardinality(MatchPairs(in))
  /\ \A p \in MatchPairs(in) : out[RankOf(in, p)] = RangeOf(in)[p[2]].sha

\* C18 as claimed: get_pr_commits returns the merge commit alone for a pull
\* request merged with a merge commit of several parents; the promoted
\* commits that match the commits of the pull request, in the order of the
\* latter, for one merged without; the commit id of its 'closed' event for
\* one closed without merging; nothing for an open one.
C18_AsClaimed ==
  probe.done =>
    LET pr == probe.in.pr
        out == probe.out
    IN  /\ pr.merged /\ pr.mergeParents > 1 => out = <<merge_commit_sha(pr)>>
        /\ pr.merged /\ pr.mergeParents <= 1 => InPRCommitOrder(probe.in, out)
        /\ ~pr.merged /\ pr.state = "closed" =>
             Len(out) = 1 /\ out[1] \in SeqToSet(pr.closedEvents)
        /\ pr.state = "open" => out = <<>>

\* C18: get_pr_commits returns the merge commit alone for a pull request
\* merged with a merge commit of several parents.  For one merged without,
\* it returns, for every commit of the pull request in turn, the promoted
\* commits of the range whose message starts with the title line of that
\* commit, in the order of the range: a promoted commit is returned once
\* for every commit of the pull request it matches.  For a pull request
\* closed without merging it returns the commit id of every 'closed' event
\* of the pull request, in the order of the events, and for an open one
\* the empty list.
C18_Commits ==
  probe.done =>
    LET pr == probe.in.pr
        out == probe.out
    IN  /\ pr.merged /\ pr.mergeParents > 1 => out = <<merge_commit_sha(pr)>>
        /\ pr.merged /\ pr.mergeParents <= 1 => InPRCommitOrder(probe.in, out)
        /\ ~pr.merged /\ pr.state = "closed" => out = pr.closedEvents
        /\ pr.state = "open" => out = <<>>

\* Two commits of a pull request merged without a merge commit, promoted in
\* the other order: the commits returned follow the pull request.
C18_Witness ==
  /\ probe.done
  /\ probe.in.pr.merged /\ probe.in.pr.mergeParents = 1
  /\ probe.in.pr.prCommits = << <<"add">>, <<"fix", "bug">> >>
  /\ Len(RangeOf(probe.in)) = 2
  /\ probe.out = << RangeOf(probe.in)[2].sha, RangeOf(probe.in)[1].sha >>

\* --------------------------------------------------- push, then open

MaxPushFaults == 2

\* The push or the creation of the pull request fails, nothing else does
PushOracles == [git : {"clean"}, at : {1}, fail : {"none", "push", "create"}]

InvokePush ==
  \E args \in Arguments : \E o \in PushOracles :
    RunUnder(args, o, MaxPRs, MaxPushFaults)

NextPush == InvokePush \/ Merge

SpecPush == Init /\ [][NextPush]_vars

\* C19 as claimed: a step opens a pull request only when it has pushed the
\* branch of that pull request to the fork itself, and an invocation
\* pushes to the fork only: no branch of the repository is changed by it.
C19_PushBeforeOpen ==
  [][lastRun' # NoRun =>
       /\ \A st \in StepsOf(lastRun') : st.created # 0 => st.pushed
       /\ target' = target]_vars

\* ------------------------------------------------- the commit range

\* C20 as claimed: an invocation with --commits and without --pull-request,
\* in which no call fails, dispatches a backport for every pull request of
\* the range that carries 'promoted-to-master' and a backport label, also
\* when a merged backport pull request that still carries backport labels
\* is among the closed pull requests updated last.
C20_RangeDispatched ==
  lastRun # NoRun /\ lastRun.args.pull_request = 0 /\ lastRun.args.range
    /\ FaultFree(lastRun) =>
      /\ lastRun.path = "trigger"
      /\ \A n \in SeqToSet(RangePulls(lastRun.args.start)) :
           Dispatchable(prs[n]) => n \in DispatchedFor(lastRun)

\* ------------------------------------------------ the same original

\* The pull requests the step from this state to the next has created
NewPulls == (Len(prs) + 1)..Len(prs')

\* C21: every backport pull request created by an invocation in which the
\* original pull request is fetched refers to one pull request that is not
\* a backport: its only 'Parent PR' line names it, its head branch is
\* backport/<that number>/to-<version>, and nobody but the author of that
\* pull request is assigned (the author is, when the assignee call does not
\* fail).  On the resumption path it is the original of the merged
\* backport pull request the cascade goes on from.
C21_SameOriginal ==
  [][lastRun' # NoRun /\ lastRun'.o.fail # "get_pull" =>
       \A n \in NewPulls :
         \E m \in 1..Len(prs) :
           /\ prs[m].parents = <<>> /\ prs[m].user # BotUser
           /\ ParentReferences(prs'[n]) = <<m>>
           /\ prs'[n].head = new_branch_name(m, prs'[n].base)
           /\ prs'[n].assignees \subseteq {prs[m].user}
           /\ lastRun'.o.fail # "assignee" => prs'[n].assignees = {prs[m].user}
           /\ lastRun'.path = "resume" => m = OriginOf(prs, lastRun'.found)]_vars

\* The cascade has gone on from a merged backport pull request, and the
\* pull request of the next version names the original, not the backport.
C21_Witness ==
  /\ lastRun.path = "resume" /\ lastRun.found # 0
  /\ prs[lastRun.found].user = BotUser
  /\ \E k \in 1..Len(lastRun.calls) :
       \E n \in SeqToSet(lastRun.calls[k].created_prs) :
         /\ ParentReferences(prs[n]) = <<OriginOf(prs, lastRun.found)>>
         /\ OriginOf(prs, lastRun.found) # lastRun.found
         /\ prs[n].head = new_branch_name(OriginOf(prs, lastRun.found), prs[n].base)
         /\ prs[n].assignees = {prs[OriginOf(prs, lastRun.found)].user}
         /\ prs[n].base # prs[lastRun.found].base

\* ------------------------------------------- the branch of an open PR

\* A change whose conflict somebody has resolved by hand on the branch
Fixed(change) == [change |-> change, form |-> "fixed"]

HandResolved(content) ==
  {t \in content : t.form # "conflicted"}
    \cup {Fixed(t.change) : t \in {u \in content : u.form = "conflicted"}}

\* Somebody pushes the resolution of the conflicts to the head branch of an
\* open draft pull request.
Resolve ==
  \E n \in 1..Len(prs) :
    /\ prs[n].state = "open" /\ prs[n].draft
    /\ prs[n].head \in DOMAIN fork
    /\ \E t \in fork[prs[n].head] : t.form = "conflicted"
    /\ fork' = [fork EXCEPT ![prs[n].head] = HandResolved(@)]
    /\ lastRun' = NoRun
    /\ UNCHANGED <<prs, recent, target, stable, resumed, faults, probe>>

NextResolve == InvokeWaterfall \/ Merge \/ Resolve

SpecResolve == InitWaterfall /\ [][NextResolve]_vars

\* C22 as claimed: no invocation changes the head branch of a pull request
\* that is open when it starts; the branch of a backport that is run again
\* for the same original and version stays as it is on the fork.
C22_HeadPreserved ==
  [][lastRun' # NoRun =>
       \A n \in 1..Len(prs) :
         prs[n].state = "open" /\ prs[n].head \in DOMAIN fork =>
           fork'[prs[n].head] = fork[prs[n].head]]_vars

\* ------------------------------------------------ one SHA, one commit

\* The commits of the pull request that have a counterpart in the range
WithCounterpart(in) == {p[1] : p \in MatchPairs(in)}

NoDuplicates(seq) == \A i, j \in 1..Len(seq) : seq[i] = seq[j] => i = j

\* C23 as claimed: for a pull request merged without a merge commit of
\* several parents, get_pr_commits returns no SHA twice, and one SHA for
\* every commit of the pull request that has a counterpart in the promoted
\* range.
C23_OncePerCommit ==
  probe.done /\ probe.in.pr.merged /\ probe.in.pr.mergeParents <= 1 =>
    /\ NoDuplicates(probe.out)
    /\ Len(probe.out) = Cardinality(WithCounterpart(probe.in))

\* ------------------------------------------------------ --pull-request

\* C24: an invocation with --pull-request does not look for merged backport
\* pull requests; it calls backport() for that pull request only, with the
\* label of --label as the only label, whatever backport labels the pull
\* request carries, and at most once; it opens at most one pull request,
\* for the version of that label; and when the pull request has no
\* 'promoted-to-master' label it calls nothing, opens nothing and pushes
\* nothing.
C24_PullRequestOnly ==
  [][lastRun' # NoRun /\ lastRun'.args.pull_request # 0 =>
       LET args == lastRun'.args IN
       /\ lastRun'.path = "trigger" /\ lastRun'.found = 0
       /\ Len(lastRun'.calls) <= 1
       /\ \A k \in 1..Len(lastRun'.calls) :
            /\ lastRun'.calls[k].pr = args.pull_request
            /\ lastRun'.calls[k].labels = <<args.label>>
       /\ Cardinality(NewPulls) <= 1
       /\ \A n \in NewPulls :
            /\ prs'[n].base = LabelVersion(args.label)
            /\ ParentReferences(prs'[n]) = <<args.pull_request>>
       /\ Promoted \notin prs[args.pull_request].labels =>
            lastRun'.calls = <<>> /\ prs' = prs /\ fork' = fork]_vars

\* An invocation with --pull-request has opened the pull request of the
\* label given, for a pull request that carries other backport labels too,
\* while a merged backport pull request with labels left was there to go
\* on from.
C24_Witness ==
  /\ lastRun.args.pull_request # 0
  /\ ~lastRun.args.parallel
  /\ Len(lastRun.calls) = 1
  /\ Len(lastRun.calls[1].created_prs) = 1
  /\ prs[lastRun.calls[1].created_prs[1]].base = LabelVersion(lastRun.args.label)
  /\ Cardinality(BackportLabelsOf(prs[lastRun.args.pull_request])) > 1
  /\ \E m \in 1..Len(prs) :
       /\ m < lastRun.calls[1].created_prs[1]
       /\ prs[m].user = BotUser /\ prs[m].merged
       /\ BackportLabelsOf(prs[m]) # {}
  /\ find_merged_prs_with_labels(Pulls(World)).found # <<>>

====
